---- MODULE Spec2Model ----
(***************************************************************************)
(* Model of ez_paging's top-level (L4) page-table manager                  *)
(* (src/src/managed_l4_table/managed_l4_page_table.rs) and of its PAT      *)
(* resolver (src/src/managed_pat.rs).                                      *)
(*                                                                         *)
(* Physical memory is a map from frame number to the 512 entries the frame *)
(* holds.  A ManagedL4PageTable is identified by the frame it owns; its    *)
(* fields are l4type[frame] (_type) and config[frame] (config).  A panic   *)
(* leaves the state as it was at the panicking statement and is recorded   *)
(* in ret; under an unwinding build the surviving objects stay usable.     *)
(***************************************************************************)
EXTENDS Integers, Sequences, FiniteSets

VARIABLES
    mem,        \* physical memory: frame -> [slot -> entry value]
    free,       \* Owned4KibFrame tokens the allocator has handed out, not yet consumed
    l4type,     \* ManagedL4PageTable._type of the table on each frame (NoTable if none)
    config,     \* ManagedL4PageTable.config of the table on each frame
    sysconfig,  \* the system's PagingConfig value
    cr3,        \* the core's Cr3 register: <<frame, flags>>, or NoCr3 before any write
    pat,        \* contents of the PAT MSR, as Pat::read() returns them
    ret,        \* the last operation and its outcome
    parent,     \* history: the Kernel table a User table was forked from
    forked,     \* history: new_user has run to completion on this instance
    steps       \* number of operations performed

vars == <<mem, free, l4type, config, sysconfig, cr3, pat, ret, parent, forked, steps>>

-----------------------------------------------------------------------------
(* Bounds *)

NumFrames == 3
MaxVal == 1
MaxSteps == 4
NumPatTypes == 3

Frames == 0..(NumFrames - 1)
Vals == 0..MaxVal
\* slots written through the raw table handle: the last slot of the lower half
\* and the first and last slots of the upper half
ProbeSlots == {255, 256, 511}

-----------------------------------------------------------------------------
(* Types *)

\* x86_64 PageTable: 512 entries, indexed by PageTableIndex
Slots == 0..511

NoTable == [kind |-> "None", is_referenced |-> FALSE]
User == [kind |-> "User", is_referenced |-> FALSE]
Kernel(is_referenced) == [kind |-> "Kernel", is_referenced |-> is_referenced]

NoCr3 == <<-1, {}>>
NoFrame == 0 - 1

\* Cr3Flags values passed to switch_to
Cr3FlagSets == {{}, {"PAGE_LEVEL_WRITETHROUGH"}}

\* PagingConfig: the physical -> accessible address translation
Configs == {[phys_offset |-> 0], [phys_offset |-> 4096 * NumFrames]}

\* Owned4KibFrame::start_address: frames are 4 KiB aligned
start_address(frame) == frame * 4096

\* PhysAddr::to_virt(config)
to_virt(addr, cfg) == addr + cfg.phys_offset

Zeroed == [i \in Slots |-> 0]

\* what a frame holds when the allocator hands it out: left-over data, no slot
\* of it zero
Dirty(frame) == [i \in Slots |-> 1 + ((frame + i) % MaxVal)]

-----------------------------------------------------------------------------
(* L4Type *)

\* mutant: the Kernel range built with an exclusive end
l4_managed_entry_range_exclusive_end(t) ==
    IF t.kind = "User" THEN 0..255 ELSE 256..510

l4_managed_entry_range(t) ==
    IF t.kind = "User" THEN 0..255 ELSE 256..511

\* mutant: the Kernel arm ignores is_referenced
can_create_new_l4_entries_always(t) == TRUE

can_create_new_l4_entries(t) ==
    IF t.kind = "User" THEN TRUE ELSE ~t.is_referenced

-----------------------------------------------------------------------------
(* init_page_table: NonNull::new(..).unwrap(), then write_bytes(0, 1) *)

\* mutant: write_bytes clears only the first half of the frame
init_page_table_half(m, frame, cfg) ==
    IF to_virt(start_address(frame), cfg) = 0
    THEN [panic |-> TRUE, mem |-> m]
    ELSE [panic |-> FALSE,
          mem |-> [m EXCEPT ![frame] = [i \in Slots |-> IF i < 256 THEN 0 ELSE m[frame][i]]]]

init_page_table(m, frame, cfg) ==
    IF to_virt(start_address(frame), cfg) = 0
    THEN [panic |-> TRUE, mem |-> m]
    ELSE [panic |-> FALSE, mem |-> [m EXCEPT ![frame] = Zeroed]]

\* mutant: the User arm of the match does not panic
fork_source_rejected_never(t) == FALSE

\* the match at the head of new_user, User arm: panic!
fork_source_rejected(t) == t.kind = "User"

\* mutant: the flag is flipped instead of set
set_referenced_toggle(t) == Kernel(~t.is_referenced)

\* the match at the head of new_user, Kernel arm: *is_referenced = true
set_referenced(t) == Kernel(TRUE)

\* mutant: a forked table's handle points into the frame of the table it was
\* forked from
page_table_of_parent(self) == IF parent[self] # NoFrame THEN parent[self] ELSE self

\* page_table(): the frame the returned handle points into, the table's own
page_table(self) == self

\* mutant: source and destination of clone_from exchanged
copy_entries_swapped(m, kernel_page_table, user_page_table, range_to_copy) ==
    [m EXCEPT ![kernel_page_table] =
        [index \in Slots |-> IF index \in range_to_copy
                             THEN m[user_page_table][index]
                             ELSE m[kernel_page_table][index]]]

\* the copy loop of new_user: user_page_table[index].clone_from(&kernel_page_table[index])
copy_entries(m, kernel_page_table, user_page_table, range_to_copy) ==
    [m EXCEPT ![user_page_table] =
        [index \in Slots |-> IF index \in range_to_copy
                             THEN m[kernel_page_table][index]
                             ELSE m[user_page_table][index]]]

\* mutant: the new table is built on the frame of the table forked from
lower_half_frame_of_self(self, frame) == self

\* the struct literal of new_user: lower_half owns the frame passed in
lower_half_frame(self, frame) == frame

\* mutant: the flags are dropped
Cr3_write_no_flags(frame, flags) == <<frame, {}>>

\* Cr3::write(self.frame.0, flags): the register's new value
Cr3_write(frame, flags) == <<frame, flags>>

\* what the caller holds after a call: the operation, whether it returned or
\* panicked, the table it was called on and the frame of the table it returned
Outcome(op, status, self, frame) ==
    [op |-> op, status |-> status, self |-> self, frame |-> frame]

-----------------------------------------------------------------------------
(* Operations *)

new_kernel(self, frame) ==
    /\ steps < MaxSteps
    /\ frame \in free
    /\ free' = free \ {frame}
    /\ steps' = steps + 1
    /\ LET r == init_page_table(mem, frame, self) IN
       IF r.panic
       THEN /\ ret' = Outcome("new_kernel", "panic", NoFrame, frame)
            /\ UNCHANGED <<mem, l4type, config>>
       ELSE /\ mem' = r.mem
            /\ l4type' = [l4type EXCEPT ![frame] = Kernel(FALSE)]
            /\ config' = [config EXCEPT ![frame] = self]
            /\ ret' = Outcome("new_kernel", "ok", NoFrame, frame)
    /\ UNCHANGED <<sysconfig, cr3, pat, parent, forked>>

new_user(self, frame) ==
    /\ steps < MaxSteps
    /\ l4type[self] # NoTable
    /\ frame \in free
    /\ free' = free \ {frame}
    /\ steps' = steps + 1
    /\ IF fork_source_rejected(l4type[self])
       THEN /\ ret' = Outcome("new_user", "panic", self, frame)
            /\ UNCHANGED <<mem, l4type, config, parent, forked>>
       ELSE LET marked == [l4type EXCEPT ![self] = set_referenced(l4type[self])]
                r == init_page_table(mem, frame, config[self])
            IN  IF r.panic
                THEN /\ l4type' = marked
                     /\ ret' = Outcome("new_user", "panic", self, frame)
                     /\ UNCHANGED <<mem, config, parent, forked>>
                ELSE LET lower_half == lower_half_frame(self, frame) IN
                     /\ l4type' = [marked EXCEPT ![lower_half] = User]
                     /\ config' = [config EXCEPT ![lower_half] = config[self]]
                     /\ mem' = copy_entries(r.mem, page_table(self), page_table(lower_half),
                                            l4_managed_entry_range(marked[self]))
                     /\ parent' = [parent EXCEPT ![lower_half] = self]
                     /\ forked' = [forked EXCEPT ![self] = TRUE]
                     /\ ret' = Outcome("new_user", "ok", self, lower_half)
    /\ UNCHANGED <<sysconfig, cr3, pat>>

\* page_table(): the handle to the live table; the caller stores value at index
page_table_write(self, index, value) ==
    /\ steps < MaxSteps
    /\ l4type[self] # NoTable
    /\ to_virt(start_address(self), config[self]) # 0
    /\ mem' = [mem EXCEPT ![page_table(self)][index] = value]
    /\ ret' = Outcome("page_table", "ok", NoFrame, NoFrame)
    /\ steps' = steps + 1
    /\ UNCHANGED <<free, l4type, config, sysconfig, cr3, pat, parent, forked>>

switch_to(self, flags) ==
    /\ steps < MaxSteps
    /\ l4type[self] # NoTable
    /\ cr3' = Cr3_write(self, flags)
    /\ ret' = Outcome("switch_to", "ok", NoFrame, NoFrame)
    /\ steps' = steps + 1
    /\ UNCHANGED <<mem, free, l4type, config, sysconfig, pat, parent, forked>>

get_frame(self) ==
    /\ steps < MaxSteps
    /\ l4type[self] # NoTable
    /\ ret' = Outcome("frame", "ok", NoFrame, self)
    /\ steps' = steps + 1
    /\ UNCHANGED <<mem, free, l4type, config, sysconfig, cr3, pat, parent, forked>>

-----------------------------------------------------------------------------
(* Specification of the table manager *)

DefaultPat == <<"WriteBack", "WriteThrough", "UncachableMinus", "Uncachable",
                "WriteBack", "WriteThrough", "UncachableMinus", "Uncachable">>

Init ==
    /\ mem = [f \in Frames |-> Dirty(f)]
    /\ free = Frames
    /\ l4type = [f \in Frames |-> NoTable]
    /\ sysconfig \in Configs
    /\ config = [f \in Frames |-> sysconfig]
    /\ cr3 = NoCr3
    /\ pat = DefaultPat
    /\ ret = Outcome("none", "ok", NoFrame, NoFrame)
    /\ parent = [f \in Frames |-> NoFrame]
    /\ forked = [f \in Frames |-> FALSE]
    /\ steps = 0

Next ==
    \/ \E frame \in Frames : new_kernel(sysconfig, frame)
    \/ \E self \in Frames, frame \in Frames : new_user(self, frame)
    \/ \E self \in Frames, index \in ProbeSlots, value \in Vals :
          page_table_write(self, index, value)
    \/ \E self \in Frames, flags \in Cr3FlagSets : switch_to(self, flags)
    \/ \E self \in Frames : get_frame(self)

Spec == Init /\ [][Next]_vars

-----------------------------------------------------------------------------
(* ManagedPat *)

\* PatMemoryType; the register is drawn from the first NumPatTypes of them
PatMemoryTypes == <<"WriteBack", "WriteThrough", "Uncachable",
                    "UncachableMinus", "WriteCombining", "WriteProtected">>
PatTypesInMsr == {PatMemoryTypes[k] : k \in 1..NumPatTypes}
\* requests also name one type the register never holds
PatTypesAsked == {PatMemoryTypes[k] : k \in 1..(NumPatTypes + 1)}
PageSizes == {"_4KiB", "_2MiB", "_1GiB"}

\* the PAT MSR has 8 entries; a register of fewer entries is a shorter list
PatContents == UNION {[1..n -> PatTypesInMsr] : n \in 1..8}

None == [some |-> FALSE, flags |-> {}]
Some(flags) == [some |-> TRUE, flags |-> flags]

\* mutant: the index of the last match (rposition)
position_last(s, x) ==
    IF \E i \in 1..Len(s) : s[i] = x
    THEN (CHOOSE i \in 1..Len(s) : s[i] = x /\ \A j \in (i + 1)..Len(s) : s[j] # x) - 1
    ELSE -1

\* Iterator::position: the 0-based index of the first match, or -1 for None
position(s, x) ==
    IF \E i \in 1..Len(s) : s[i] = x
    THEN (CHOOSE i \in 1..Len(s) : s[i] = x /\ \A j \in 1..(i - 1) : s[j] # x) - 1
    ELSE -1

\* index & (1 << k) != 0
BitSet(index, k) == (index \div (2 ^ k)) % 2 = 1

\* mutant: the 4 KiB arm names another bit than the huge-page arm
pat_bit_flag_by_size(page_size) ==
    IF page_size \in {"_1GiB", "_2MiB"} THEN "HUGE_PAGE" ELSE "BIT_12"

\* the flag the 0b100 arm adds for a page size: HUGE_PAGE in both match arms
pat_bit_flag(page_size) ==
    IF page_size \in {"_1GiB", "_2MiB"} THEN "HUGE_PAGE" ELSE "HUGE_PAGE"

\* mutant: an empty flag set is reported as None
get_page_table_flags_empty_is_none(msr, memory_type, page_size) ==
    LET pat_msr_index == position(msr, memory_type) IN
    IF pat_msr_index = -1 \/ pat_msr_index = 0 THEN None
    ELSE Some((IF BitSet(pat_msr_index, 0) THEN {"WRITE_THROUGH"} ELSE {})
              \cup (IF BitSet(pat_msr_index, 1) THEN {"NO_CACHE"} ELSE {})
              \cup (IF BitSet(pat_msr_index, 2) THEN {pat_bit_flag(page_size)} ELSE {}))

get_page_table_flags(msr, memory_type, page_size) ==
    LET pat_msr_index == position(msr, memory_type) IN
    IF pat_msr_index = -1 THEN None
    ELSE Some((IF BitSet(pat_msr_index, 0) THEN {"WRITE_THROUGH"} ELSE {})
              \cup (IF BitSet(pat_msr_index, 1) THEN {"NO_CACHE"} ELSE {})
              \cup (IF BitSet(pat_msr_index, 2) THEN {pat_bit_flag(page_size)} ELSE {}))

\* one call of ManagedPat::get_page_table_flags; the resolver keeps no state
\* between calls, so a run makes one call
resolve(memory_type, page_size) ==
    /\ steps = 0
    /\ steps' = 1
    /\ ret' = [op |-> "get_page_table_flags", memory_type |-> memory_type,
               page_size |-> page_size,
               result |-> get_page_table_flags(pat, memory_type, page_size)]
    /\ UNCHANGED <<mem, free, l4type, config, sysconfig, cr3, pat, parent, forked>>

\* the resolver touches no frame and no table: none exists in this specification
InitPat ==
    /\ pat \in PatContents
    /\ mem = <<>>
    /\ free = {}
    /\ l4type = <<>>
    /\ sysconfig = [phys_offset |-> 0]
    /\ config = <<>>
    /\ cr3 = NoCr3
    /\ ret = Outcome("none", "ok", NoFrame, NoFrame)
    /\ parent = <<>>
    /\ forked = <<>>
    /\ steps = 0

NextPat ==
    \E memory_type \in PatTypesAsked, page_size \in PageSizes :
        resolve(memory_type, page_size)

SpecPat == InitPat /\ [][NextPat]_vars

-----------------------------------------------------------------------------
(* Properties of the table manager, checked under Spec *)

\* C1: whenever new_user, called on a Kernel table K (referenced or not) with a
\* frame F of any prior contents, returns, it returns a User table on frame F
\* whose slots 256..511 equal K's slots 256..511 as they were at the call and
\* whose slots 0..255 are all zero.
C1_ForkCopiesKernelHalf ==
    [][\A K \in Frames, F \in Frames :
          (ret'.op = "new_user" /\ ret'.status = "ok" /\ l4type[K].kind = "Kernel"
              /\ new_user(K, F))
          => /\ ret' = Outcome("new_user", "ok", K, F)
             /\ l4type'[F] = User
             /\ \A i \in 256..511 : mem'[F][i] = mem[K][i]
             /\ \A i \in 0..255 : mem'[F][i] = 0]_vars

\* a fork has returned a child of a Kernel table that held a non-zero entry in
\* its last upper slot and another in its lower half
C1_Witness ==
    /\ ret.op = "new_user" /\ ret.status = "ok"
    /\ mem[ret.self][511] # 0
    /\ mem[ret.frame][511] = mem[ret.self][511]
    /\ mem[ret.self][255] # 0
    /\ mem[ret.frame][255] = 0

\* C9: whenever new_kernel returns, whatever the frame held before, the table
\* it returns is on that frame, is tagged Kernel with is_referenced = false,
\* and has all 512 slots zero.
C9_NewKernelZeroed ==
    (ret.op = "new_kernel" /\ ret.status = "ok")
    => /\ ret.frame \in Frames
       /\ ret.frame \notin free
       /\ l4type[ret.frame] = Kernel(FALSE)
       /\ config[ret.frame] = sysconfig
       /\ \A i \in Slots : mem[ret.frame][i] = 0

\* new_kernel has returned a table while another frame still holds its prior,
\* non-zero contents
C9_Witness ==
    /\ ret.op = "new_kernel" /\ ret.status = "ok"
    /\ l4type[ret.frame] = Kernel(FALSE)
    /\ \E f \in free : \A i \in Slots : mem[f][i] # 0

\* C2: a User table can always create new top-level entries; a Kernel table
\* can if and only if new_user has never completed on it.
C2_CanCreateIffNeverForked ==
    \A f \in Frames :
        /\ l4type[f].kind = "User" => can_create_new_l4_entries(l4type[f])
        /\ l4type[f].kind = "Kernel" =>
              (can_create_new_l4_entries(l4type[f]) <=> ~forked[f])

C4_ForkFromUserPanics ==
    [][\A U \in Frames, F \in Frames :
          (ret'.op = "new_user" /\ l4type[U].kind = "User" /\ new_user(U, F))
          => /\ ret' = Outcome("new_user", "panic", U, F)
             /\ l4type' = l4type
             /\ mem' = mem
             /\ parent' = parent]_vars

\* new_user has panicked on a User table whose private half holds an entry,
\* the frame passed in still holding its prior contents
C4_Witness ==
    /\ ret.op = "new_user" /\ ret.status = "panic"
    /\ l4type[ret.self] = User
    /\ l4type[ret.frame] = NoTable
    /\ mem[ret.self][255] # 0
    /\ \A i \in Slots : mem[ret.frame][i] # 0

\* C5: the managed range of a User table is exactly 0..255 and that of a
\* Kernel table, referenced or not, exactly 256..511; the two are disjoint
\* and cover 0..511; and no step changes the managed range of an existing
\* table.
C5_ManagedRangeFixed ==
    /\ [](\A f \in Frames :
            /\ l4type[f].kind = "User" => l4_managed_entry_range(l4type[f]) = 0..255
            /\ l4type[f].kind = "Kernel" => l4_managed_entry_range(l4type[f]) = 256..511
            /\ \A g \in Frames :
                  (l4type[f].kind = "User" /\ l4type[g].kind = "Kernel")
                  => /\ l4_managed_entry_range(l4type[f])
                          \cap l4_managed_entry_range(l4type[g]) = {}
                     /\ l4_managed_entry_range(l4type[f])
                          \cup l4_managed_entry_range(l4type[g]) = Slots)
    /\ [][\A f \in Frames :
             l4type[f] # NoTable
             => l4_managed_entry_range(l4type'[f]) = l4_managed_entry_range(l4type[f])]_vars

\* an unreferenced Kernel table, a referenced one and a User table exist
C5_Witness ==
    \E a \in Frames, b \in Frames, c \in Frames :
        /\ l4type[a] = Kernel(FALSE)
        /\ l4type[b] = Kernel(TRUE)
        /\ l4type[c] = User

\* C6: for two User tables forked from the same Kernel table, a write through
\* the handle into slots 0..255 of one changes no slot of the other and no
\* slot of the Kernel table.
C6_SiblingsIndependent ==
    [][\A K \in Frames, c1 \in Frames, c2 \in Frames :
          (parent[c1] = K /\ parent[c2] = K /\ c1 # c2)
          => \A index \in ProbeSlots \cap (0..255), value \in Vals :
                (ret'.op = "page_table" /\ page_table_write(c1, index, value))
                => /\ mem'[c2] = mem[c2]
                   /\ mem'[K] = mem[K]
                   /\ l4type' = l4type]_vars

\* one of two siblings holds an entry in its private half that the other
\* sibling and the parent do not hold
C6_Witness ==
    \E K \in Frames, c1 \in Frames, c2 \in Frames :
        /\ parent[c1] = K /\ parent[c2] = K /\ c1 # c2
        /\ mem[c1][255] # 0
        /\ mem[c2][255] = 0
        /\ mem[K][255] = 0

\* C7: replacing an entry of Kernel table K in slots 256..511 leaves every
\* slot of every User table already forked from K unchanged, and a fork made
\* afterwards copies the values K holds then.
C7_ForkIsSnapshot ==
    [][\A K \in Frames :
          /\ \A index \in ProbeSlots \cap (256..511), value \in Vals :
                (ret'.op = "page_table" /\ l4type[K].kind = "Kernel"
                    /\ page_table_write(K, index, value))
                => \A c \in Frames : parent[c] = K => mem'[c] = mem[c]
          /\ \A F \in Frames :
                (ret' = Outcome("new_user", "ok", K, F) /\ new_user(K, F))
                => /\ \A i \in 256..511 : mem'[F][i] = mem[K][i]
                   /\ \A c \in Frames : parent[c] = K => mem'[c] = mem[c]]_vars

\* K was forked, then an upper-half entry of K was replaced, then K was forked
\* again: the first child still holds the old value, the second the new one
C7_Witness ==
    \E K \in Frames, c1 \in Frames, c2 \in Frames :
        /\ parent[c1] = K /\ parent[c2] = K /\ c1 # c2
        /\ mem[K][256] # 0
        /\ mem[c1][256] = 0
        /\ mem[c2][256] = mem[K][256]

\* C8: new_kernel and new_user either complete or abort before any mutation:
\* when new_user panics, on a User table or on the unwrap of a null accessible
\* address, the source table's is_referenced flag and entries and the new
\* frame's contents are as before the call.
C8_AbortBeforeMutation ==
    [][/\ \A K \in Frames, F \in Frames :
             (ret' = Outcome("new_user", "panic", K, F) /\ new_user(K, F))
             => (l4type'[K] = l4type[K] /\ mem'[K] = mem[K] /\ mem'[F] = mem[F])
       /\ \A F \in Frames :
             (ret' = Outcome("new_kernel", "panic", NoFrame, F) /\ new_kernel(sysconfig, F))
             => (l4type' = l4type /\ mem' = mem)]_vars

-----------------------------------------------------------------------------
(* Properties of the PAT resolver, checked under SpecPat *)

\* C10: when the requested memory type occurs in the register, the result is
\* Some(flags) with the flags read off the first (0-based) index i holding
\* that type: WRITE_THROUGH iff bit 0 of i, NO_CACHE iff bit 1 of i, HUGE_PAGE
\* iff bit 2 of i, and no other flag; the register [WriteBack, WriteThrough,
\* Uncachable] asked for WriteThrough gives WRITE_THROUGH alone.
C10_FirstMatchDecidesFlags ==
    ret.op = "get_page_table_flags"
    => /\ \A k \in 1..Len(pat) :
             (pat[k] = ret.memory_type /\ \A j \in 1..(k - 1) : pat[j] # ret.memory_type)
             => /\ ret.result.some
                /\ ("WRITE_THROUGH" \in ret.result.flags) <=> ((k - 1) % 2 = 1)
                /\ ("NO_CACHE" \in ret.result.flags) <=> (((k - 1) \div 2) % 2 = 1)
                /\ ("HUGE_PAGE" \in ret.result.flags) <=> (((k - 1) \div 4) % 2 = 1)
                /\ ret.result.flags \subseteq {"WRITE_THROUGH", "NO_CACHE", "HUGE_PAGE"}
       /\ (pat = <<"WriteBack", "WriteThrough", "Uncachable">>
             /\ ret.memory_type = "WriteThrough")
          => ret.result = Some({"WRITE_THROUGH"})

\* the requested type occurs twice in a full register, first at an index with
\* bit 2 set and bit 0 clear, again at an index with bit 0 set
C10_Witness ==
    /\ ret.op = "get_page_table_flags"
    /\ Len(pat) = 8
    /\ \A j \in 1..4 : pat[j] # ret.memory_type
    /\ pat[5] = ret.memory_type
    /\ pat[6] = ret.memory_type
    /\ ret.result = Some({"HUGE_PAGE"})

\* C11: the result is None if and only if the requested memory type occurs at
\* no index of the register; the call always returns a value; and a type held
\* at index 0 gives Some of the empty flag set, not None.
C11_NoneIffAbsent ==
    ret.op = "get_page_table_flags"
    => /\ ret.result.some \in BOOLEAN
       /\ (ret.result = None) <=> (\A k \in 1..Len(pat) : pat[k] # ret.memory_type)
       /\ (pat[1] = ret.memory_type) => (ret.result = Some({}) /\ ret.result # None)

\* a full register was asked for a type it holds at no index
C11_Witness ==
    /\ ret.op = "get_page_table_flags"
    /\ Len(pat) = 8
    /\ \A k \in 1..8 : pat[k] # ret.memory_type
    /\ ret.result = None

\* C12: for the register and memory type of a call, the result is the same
\* for the page sizes 4KiB, 2MiB and 1GiB; when the first matching index has
\* bit 2 set, HUGE_PAGE is in the result whatever the page size.
C12_PageSizeIrrelevant ==
    ret.op = "get_page_table_flags"
    => /\ \A page_size \in PageSizes :
             get_page_table_flags(pat, ret.memory_type, page_size) = ret.result
       /\ \A k \in 1..Len(pat) :
             (/\ pat[k] = ret.memory_type
              /\ (\A j \in 1..(k - 1) : pat[j] # ret.memory_type)
              /\ ((k - 1) \div 4) % 2 = 1)
             => "HUGE_PAGE" \in ret.result.flags

\* a call for a 4 KiB page whose first matching index has bit 2 set
C12_Witness ==
    /\ ret.op = "get_page_table_flags"
    /\ ret.page_size = "_4KiB"
    /\ Len(pat) >= 7
    /\ \A j \in 1..6 : pat[j] # ret.memory_type
    /\ pat[7] = ret.memory_type
    /\ ret.result = Some({"NO_CACHE", "HUGE_PAGE"})

-----------------------------------------------------------------------------
(* Further properties of the table manager, checked under Spec *)

\* C13: a new_user that returns changes nothing of the Kernel table K it was
\* called on except that is_referenced is true afterwards: K's 512 entries,
\* K's hold on its frame and K's translator are as before, and no other
\* existing table's entries, tag or translator change.
C13_ForkLeavesKernelEntries ==
    [][\A K \in Frames, F \in Frames :
          (ret' = Outcome("new_user", "ok", K, F) /\ new_user(K, F))
          => /\ l4type'[K] = Kernel(TRUE)
             /\ mem'[K] = mem[K]
             /\ config'[K] = config[K]
             /\ K \notin free'
             /\ \A g \in Frames \ {K, F} :
                   /\ mem'[g] = mem[g]
                   /\ l4type'[g] = l4type[g]
                   /\ config'[g] = config[g]]_vars

\* a fork has returned from a Kernel table holding entries in both halves,
\* while a third table exists
C13_Witness ==
    /\ ret.op = "new_user" /\ ret.status = "ok"
    /\ mem[ret.self][256] # 0
    /\ mem[ret.frame][256] = mem[ret.self][256]
    /\ \E g \in Frames \ {ret.self, ret.frame} : l4type[g] # NoTable

\* C14: no frame is held by more than one table: a table's frame is never
\* still in the allocator's pool, a forked table is not on the frame of the
\* table it was forked from, and every new_kernel or new_user that returns
\* built its table on a frame taken from the pool that no existing table
\* held, leaving every existing table in place.
C14_FramesExclusive ==
    /\ [](\A f \in Frames :
            l4type[f] # NoTable
            => /\ f \notin free
               /\ parent[f] # f
               /\ parent[f] # NoFrame
                    => (l4type[f] = User /\ l4type[parent[f]].kind = "Kernel"))
    /\ [][(ret'.op \in {"new_kernel", "new_user"} /\ ret'.status = "ok")
          => /\ ret'.frame \in free
             /\ ret'.frame \notin free'
             /\ l4type[ret'.frame] = NoTable
             /\ l4type'[ret'.frame] # NoTable
             /\ ret'.frame # ret'.self
             /\ \A g \in Frames :
                   l4type[g] # NoTable => l4type'[g].kind = l4type[g].kind]_vars

\* every frame has been consumed: a Kernel table and two tables forked from
\* it, on three frames
C14_Witness ==
    /\ free = {}
    /\ \E K \in Frames :
          /\ l4type[K].kind = "Kernel"
          /\ Cardinality({c \in Frames : parent[c] = K /\ l4type[c] = User}) = 2

\* C15: switch_to on table T with flags, whether T is Kernel or User, sets
\* Cr3 to T's frame with those flags, so Cr3 holds the frame of the table
\* activated last; it changes no table's entries, tag or translator and no
\* frame's ownership.
C15_SwitchToWritesCr3 ==
    [][\A T \in Frames, flags \in Cr3FlagSets :
          (ret'.op = "switch_to" /\ switch_to(T, flags))
          => /\ l4type[T].kind \in {"Kernel", "User"}
             /\ cr3' = <<T, flags>>
             /\ mem' = mem
             /\ l4type' = l4type
             /\ config' = config
             /\ free' = free
             /\ parent' = parent]_vars

\* a User table was activated with a flag set, after its Kernel table had
\* been activated
C15_Witness ==
    /\ ret.op = "switch_to"
    /\ steps = 4
    /\ l4type[cr3[1]] = User
    /\ cr3[2] = {"PAGE_LEVEL_WRITETHROUGH"}

-----------------------------------------------------------------------------
(* Mapping code that obeys the gate *)

\* One atomic check-then-insert of the mapping code: it asks
\* can_create_new_l4_entries, and only on true stores a new entry into a slot
\* of the table's managed range that is still empty. It never replaces or
\* clears an entry.
insert_new_l4_entry(self, index, value) ==
    /\ steps < MaxSteps
    /\ l4type[self] # NoTable
    /\ can_create_new_l4_entries(l4type[self])
    /\ index \in l4_managed_entry_range(l4type[self])
    /\ mem[page_table(self)][index] = 0
    /\ value # 0
    /\ mem' = [mem EXCEPT ![page_table(self)][index] = value]
    /\ ret' = Outcome("insert", "ok", NoFrame, NoFrame)
    /\ steps' = steps + 1
    /\ UNCHANGED <<free, l4type, config, sysconfig, cr3, pat, parent, forked>>

\* constructors and gated inserts, each one atomic step, in any order
NextGated ==
    \/ \E frame \in Frames : new_kernel(sysconfig, frame)
    \/ \E self \in Frames, frame \in Frames : new_user(self, frame)
    \/ \E self \in Frames, index \in ProbeSlots, value \in Vals :
          insert_new_l4_entry(self, index, value)

SpecGated == Init /\ [][NextGated]_vars

\* C16: when entries enter a Kernel table's slots 256..511 only through
\* gated inserts, each atomic with respect to new_user, every User table
\* forked from that Kernel table has slots 256..511 equal to the Kernel
\* table's current slots 256..511.
C16_ChildrenMatchKernelHalf ==
    \A c \in Frames :
        parent[c] # NoFrame
        => \A i \in 256..511 : mem[c][i] = mem[parent[c]][i]

\* entries were inserted into both ends of a Kernel table's half before it was
\* forked, and the forked table holds them
C16_Witness ==
    \E c \in Frames :
        /\ parent[c] # NoFrame
        /\ l4type[parent[c]] = Kernel(TRUE)
        /\ mem[parent[c]][256] # 0
        /\ mem[parent[c]][511] # 0
        /\ mem[c][256] = mem[parent[c]][256]
        /\ mem[c][511] = mem[parent[c]][511]

====
